---------------------------- MODULE Spec2Model ----------------------------
(***************************************************************************)
(* Model of the snake simulation of src/main.rs: the Player (head GridPos, *)
(* facing, next_movement, segment_positions), the Segment and Food         *)
(* entities, the FoodEated event queue, the tick timer, the GameStates     *)
(* state machine, and the systems of the FixedUpdate and Update schedules  *)
(* in the order main() registers them.                                     *)
(*                                                                         *)
(* One frame of the application is: the state transition (a pending        *)
(* NextState is applied), then zero or more runs of FixedUpdate, then one  *)
(* run of Update.  One run of FixedUpdate steps through the chained        *)
(* systems; pc names the system that runs next.  Commands (despawn, spawn) *)
(* are applied at the synchronisation point that follows the system that   *)
(* queued them, before the next system of the chain runs, so each action   *)
(* includes the effect of its own commands.                                *)
(***************************************************************************)
EXTENDS Integers, Sequences, FiniteSets

\* ------------------------------------------------------------------ bounds
\* GRID_SIZE is 40 x 22 in the source; the board is scaled down.  Both
\* dimensions are even, as in the source, so that the starting cell
\* GRID_SIZE / 2 is a grid cell.
HalfW == 1
HalfH == 1
\* The head may leave the board (nothing in move_player stops it); the model
\* follows it at most Margin cells beyond each border.
Margin == 1
\* The model follows the snake up to this many entries of segment_positions.
MaxLen == 6
\* Runs of FixedUpdate per expiry of the tick timer (16 in the application:
\* a 1/4 s timer advanced by a 1/64 s fixed step), scaled down.
TickSteps == 2

\* --------------------------------------------------------------- constants
INITIAL_SEGMENTS == 4

GRID_SIZE == <<2 * HalfW, 2 * HalfH>>

\* The off-board position of a Segment that has no history entry yet, and of
\* the initial entries of segment_positions.
Parked == <<-5, -5>>

Directions == {"Up", "Down", "Left", "Right"}

GameStates == {"InGame", "GameOver"}

VARIABLES
    state,              \* State<GameStates>
    next_state,         \* NextState<GameStates>: "Unchanged" or a pending state
    player_pos,         \* the Player's GridPos
    facing,             \* Player.facing
    next_movement,      \* Player.next_movement
    segment_positions,  \* Player.segment_positions, front first
    segments,           \* GridPos of the Segment entities, in spawn order
    foods,              \* GridPos of the Food entities, in spawn order
    eated_events,       \* number of FoodEated events not drained yet
    timer,              \* TickTimer: fixed steps elapsed since the last expiry
    finished,           \* TickTimer.timer.finished()
    fixed_runs,         \* runs of FixedUpdate in the current frame
    pc                  \* the system (or frame phase) that runs next

vars == <<state, next_state, player_pos, facing, next_movement,
          segment_positions, segments, foods, eated_events, timer, finished,
          fixed_runs, pc>>

\* ----------------------------------------------------------------- helpers
\* to_vec2 with the y axis pointing down (screen coordinates).
to_vec2_YDown(d) ==
    CASE d = "Up" -> <<0, -1>>
      [] d = "Down" -> <<0, 1>>
      [] d = "Left" -> <<-1, 0>>
      [] d = "Right" -> <<1, 0>>

to_vec2(d) ==
    CASE d = "Up" -> <<0, 1>>
      [] d = "Down" -> <<0, -1>>
      [] d = "Left" -> <<-1, 0>>
      [] d = "Right" -> <<1, 0>>

\* inverse with the Up arm returning Up.
inverse_UpFixed(d) ==
    CASE d = "Up" -> "Up"
      [] d = "Down" -> "Up"
      [] d = "Left" -> "Right"
      [] d = "Right" -> "Left"

inverse(d) ==
    CASE d = "Up" -> "Down"
      [] d = "Down" -> "Up"
      [] d = "Left" -> "Right"
      [] d = "Right" -> "Left"

Add(p, v) == <<p[1] + v[1], p[2] + v[2]>>

\* The cells random_range(0..GRID_SIZE.x) x random_range(0..GRID_SIZE.y) draws.
Cells == (0 .. GRID_SIZE[1] - 1) \X (0 .. GRID_SIZE[2] - 1)

Repeat(x, n) == [i \in 1 .. n |-> x]

first_pos == <<GRID_SIZE[1] \div 2, GRID_SIZE[2] \div 2>>

\* The part of the plane the model follows the head in: the board with Margin
\* cells around it, and the cells of a straight run of INITIAL_SEGMENTS ticks
\* from the starting cell in the starting direction.
Region ==
    ((-Margin .. GRID_SIZE[1] - 1 + Margin) \X (-Margin .. GRID_SIZE[2] - 1 + Margin))
    \cup {<<first_pos[1] + k, first_pos[2]>> : k \in 0 .. INITIAL_SEGMENTS}

\* ------------------------------------------------------------------- setup
Init ==
    /\ state = "InGame"
    /\ next_state = "Unchanged"
    /\ player_pos = first_pos
    /\ facing = "Right"
    /\ next_movement = "Right"
    /\ segment_positions = Repeat(Parked, INITIAL_SEGMENTS)
    /\ segments = Repeat(Parked, INITIAL_SEGMENTS)
    /\ foods = <<>>
    /\ eated_events = 0
    /\ timer = 0
    /\ finished = FALSE
    /\ fixed_runs = 0
    /\ pc = "StateTransition"


\* ------------------------------------------------------------ the schedule
\* A frame starts by applying the pending NextState, if any.
StateTransition ==
    /\ pc = "StateTransition"
    /\ state' = IF next_state = "Unchanged" THEN state ELSE next_state
    /\ next_state' = "Unchanged"
    /\ fixed_runs' = 0
    /\ pc' = "RunFixedMainLoop"
    /\ UNCHANGED <<player_pos, facing, next_movement, segment_positions,
                   segments, foods, eated_events, timer, finished>>

\* RunFixedUpdate without the run condition on the state.
RunFixedUpdate_Ungated ==
    /\ pc = "RunFixedMainLoop"
    /\ fixed_runs < TickSteps
    /\ fixed_runs' = fixed_runs + 1
    /\ pc' = "process_tick"
    /\ UNCHANGED <<state, next_state, player_pos, facing, next_movement,
                   segment_positions, segments, foods, eated_events, timer,
                   finished>>

\* One more run of FixedUpdate in this frame.  The systems of the tuple under
\* run_if(in_state(InGame)) run only in InGame; otherwise the run does nothing
\* to the simulation.  A frame runs at most TickSteps fixed steps (the engine
\* clamps the time a frame adds to 250 ms, the period of the tick timer), so
\* the timer expires at most once between two state transitions.
RunFixedUpdate ==
    /\ pc = "RunFixedMainLoop"
    /\ fixed_runs < TickSteps
    /\ fixed_runs' = fixed_runs + 1
    /\ pc' = IF state = "InGame" THEN "process_tick" ELSE "RunFixedMainLoop"
    /\ UNCHANGED <<state, next_state, player_pos, facing, next_movement,
                   segment_positions, segments, foods, eated_events, timer,
                   finished>>

\* ------------------------------------------------------------- FixedUpdate
process_tick ==
    /\ pc = "process_tick"
    /\ timer' = (timer + 1) % TickSteps
    /\ finished' = (timer + 1 = TickSteps)
    /\ pc' = "move_player"
    /\ UNCHANGED <<state, next_state, player_pos, facing, next_movement,
                   segment_positions, segments, foods, eated_events,
                   fixed_runs>>

\* GrowthGate that pops the back of the queue instead of the front.
GrowthGate_PopBack(just_ate, q) ==
    IF just_ate THEN q ELSE SubSeq(q, 1, Len(q) - 1)

\* GrowthGate with the pop done on every tick.
GrowthGate_AlwaysPop(just_ate, q) == Tail(q)

\* `if !just_ate { pop_front }` applied to the queue after the push_back.
GrowthGate(just_ate, q) == IF just_ate THEN q ELSE Tail(q)

move_player ==
    /\ pc = "move_player"
    /\ IF ~finished
       THEN UNCHANGED <<player_pos, facing, segment_positions, eated_events>>
       ELSE LET just_ate == eated_events > 0
                new_pos == Add(player_pos, to_vec2(next_movement))
                new_segs == GrowthGate(just_ate, Append(segment_positions, player_pos))
            IN  /\ new_pos \in Region
                /\ Len(new_segs) <= MaxLen
                /\ eated_events' = 0
                /\ facing' = next_movement
                /\ segment_positions' = new_segs
                /\ player_pos' = new_pos
    /\ pc' = "handle_food_eating_1"
    /\ UNCHANGED <<state, next_state, next_movement, segments, foods, timer,
                   finished, fixed_runs>>

\* handle_food_eating that leaves the Food it consumed in the world.
handle_food_eating_NoDespawn(here, next) ==
    /\ pc = here
    /\ IF Len(foods) = 1 /\ player_pos = foods[1]
       THEN /\ segments' = Append(segments, Parked)
            /\ eated_events' = eated_events + 1
            /\ UNCHANGED foods
       ELSE UNCHANGED <<foods, segments, eated_events>>
    /\ pc' = next
    /\ UNCHANGED <<state, next_state, player_pos, facing, next_movement,
                   segment_positions, timer, finished, fixed_runs>>

\* handle_food_eating is registered twice in the chain; `here` is the
\* registration that runs and `next` the system after it.  Single<.., With<Food>>
\* makes the system run only when exactly one Food exists.  The despawn and
\* the spawn of the new Segment are applied before the next system runs.
handle_food_eating(here, next) ==
    /\ pc = here
    /\ IF Len(foods) = 1 /\ player_pos = foods[1]
       THEN /\ foods' = <<>>
            /\ segments' = Append(segments, Parked)
            /\ eated_events' = eated_events + 1
       ELSE UNCHANGED <<foods, segments, eated_events>>
    /\ pc' = next
    /\ UNCHANGED <<state, next_state, player_pos, facing, next_movement,
                   segment_positions, timer, finished, fixed_runs>>

handle_food_eating_1 == handle_food_eating("handle_food_eating_1", "move_segments")

\* Project that leaves every Segment where it is.
Project_Stale(segs, positions) == segs

\* Segment i takes segment_positions[i]; a Segment beyond the history stays put.
Project(segs, positions) ==
    [i \in 1 .. Len(segs) |->
        IF i <= Len(positions) THEN positions[i] ELSE segs[i]]

move_segments ==
    /\ pc = "move_segments"
    /\ segments' = IF finished THEN Project(segments, segment_positions) ELSE segments
    /\ pc' = "check_self_intersect"
    /\ UNCHANGED <<state, next_state, player_pos, facing, next_movement,
                   segment_positions, foods, eated_events, timer, finished,
                   fixed_runs>>

\* Intersects that compares the x coordinates only.
Intersects_XOnly(segs, p) == \E i \in 1 .. Len(segs) : segs[i][1] = p[1]

\* Intersects with the first Segment left out of the loop.
Intersects_SkipFirst(segs, p) == \E i \in 2 .. Len(segs) : segs[i] = p

\* The loop of check_self_intersect: some Segment's GridPos equals the head's.
Intersects(segs, p) == \E i \in 1 .. Len(segs) : segs[i] = p

\* check_self_intersect and the second handle_food_eating are not ordered
\* with each other; they read and write disjoint data (the second queues
\* commands only), so one order stands for both.
check_self_intersect ==
    /\ pc = "check_self_intersect"
    /\ next_state' = IF finished /\ Intersects(segments, player_pos)
                     THEN "GameOver" ELSE next_state
    /\ pc' = "handle_food_eating_2"
    /\ UNCHANGED <<state, player_pos, facing, next_movement, segment_positions,
                   segments, foods, eated_events, timer, finished, fixed_runs>>

handle_food_eating_2 == handle_food_eating("handle_food_eating_2", "spawn_food_if_needed")

\* ValidFoodPlacements with the test against segment_positions left out.
ValidFoodPlacements_HeadOnly(pos, positions) == {c \in Cells : c # pos}

\* The cells get_valid_food_placement can return: it draws a cell of the board
\* and draws again while the cell is the head's or one of segment_positions.
ValidFoodPlacements(pos, positions) ==
    {c \in Cells : ~(c = pos \/ \E i \in 1 .. Len(positions) : positions[i] = c)}

\* FoodNeeded with the count compared against one instead of zero.
FoodNeeded_OffByOne(fs) == Len(fs) <= 1

\* `if existing_foods.iter().len() != 0 { return; }`
FoodNeeded(fs) == Len(fs) = 0

\* With no acceptable cell get_valid_food_placement recurses without end: the
\* run never leaves it (pc stays in "get_valid_food_placement").
spawn_food_if_needed ==
    /\ pc = "spawn_food_if_needed"
    /\ IF ~FoodNeeded(foods)
       THEN /\ pc' = "RunFixedMainLoop"
            /\ UNCHANGED foods
       ELSE IF ValidFoodPlacements(player_pos, segment_positions) = {}
            THEN /\ pc' = "get_valid_food_placement"
                 /\ UNCHANGED foods
            ELSE /\ \E potential \in ValidFoodPlacements(player_pos, segment_positions) :
                        foods' = Append(foods, potential)
                 /\ pc' = "RunFixedMainLoop"
    /\ UNCHANGED <<state, next_state, player_pos, facing, next_movement,
                   segment_positions, segments, eated_events, timer, finished,
                   fixed_runs>>

\* ------------------------------------------------------------------ Update
\* The four `if just_pressed` statements taken in the opposite order: the
\* first one that matches wins.
new_direction_FirstWins(keys) ==
    IF "Up" \in keys THEN "Up"
    ELSE IF "Left" \in keys THEN "Left"
    ELSE IF "Right" \in keys THEN "Right"
    ELSE IF "Down" \in keys THEN "Down"
    ELSE "None"

\* The four `if just_pressed` statements in source order: the last one that
\* matches wins.  keys is the set of directions whose keys were just pressed.
new_direction(keys) ==
    IF "Down" \in keys THEN "Down"
    ELSE IF "Right" \in keys THEN "Right"
    ELSE IF "Left" \in keys THEN "Left"
    ELSE IF "Up" \in keys THEN "Up"
    ELSE "None"

\* Accepts with the candidate compared as it is, not inverted.
Accepts_NoInverse(f, d) == f # d

\* `if player.facing != d.inverse()`
Accepts(f, d) == f # inverse(d)

\* `if let Some(d) = new_direction { if player.facing != d.inverse() {
\* player.next_movement = d } }`: the pending facing after a poll with keys
\* pressed, from facing f and pending facing nm.
Polled(f, nm, keys) ==
    LET d == new_direction(keys)
    IN  IF d # "None" /\ Accepts(f, d) THEN d ELSE nm

\* handle_inputs that applies an accepted direction to facing at once.
handle_inputs_TurnsAtOnce(keys) ==
    LET d == new_direction(keys)
    IN  IF d # "None" /\ Accepts(facing, d)
        THEN /\ next_movement' = d
             /\ facing' = d
             /\ UNCHANGED segment_positions
        ELSE UNCHANGED <<facing, next_movement, segment_positions>>

\* handle_inputs holds the Player mutably (facing, next_movement,
\* segment_positions) and writes next_movement only.
handle_inputs(keys) ==
    /\ next_movement' = Polled(facing, next_movement, keys)
    /\ UNCHANGED <<facing, segment_positions>>

\* The fixed main loop of the frame is over; Update runs handle_inputs in
\* InGame, and the frame ends.
Update ==
    /\ pc = "RunFixedMainLoop"
    /\ IF state = "InGame"
       THEN \E keys \in SUBSET Directions : handle_inputs(keys)
       ELSE UNCHANGED <<facing, next_movement, segment_positions>>
    /\ pc' = "StateTransition"
    /\ UNCHANGED <<state, next_state, player_pos, segments, foods,
                   eated_events, timer, finished, fixed_runs>>

Next ==
    \/ StateTransition
    \/ RunFixedUpdate
    \/ process_tick
    \/ move_player
    \/ handle_food_eating_1
    \/ move_segments
    \/ check_self_intersect
    \/ handle_food_eating_2
    \/ spawn_food_if_needed
    \/ Update

Spec == Init /\ [][Next]_vars

\* ================================================================= claims
\* move_player is about to advance the snake: a tick.
Tick == pc = "move_player" /\ finished

\* Between move_player and check_self_intersect of a tick: the head has moved
\* and the collision check has not run yet.
MidTick ==
    /\ finished
    /\ pc \in {"handle_food_eating_1", "move_segments", "check_self_intersect"}

BoardArea == GRID_SIZE[1] * GRID_SIZE[2]

\* Position p is one of the positions of the sequence s.
OnCellOf(s, p) == p \in {s[i] : i \in DOMAIN s}

C2_CollisionIsGameOver ==
    /\ (~MidTick /\ (\/ OnCellOf(segment_positions, player_pos)
                     \/ OnCellOf(segments, player_pos)))
          => (state = "GameOver" \/ next_state = "GameOver")
    /\ Tick => ~OnCellOf(segment_positions, player_pos)

\* The head moved onto a history cell and the tick's collision check has run.
C2_Witness ==
    /\ pc = "handle_food_eating_2" /\ finished
    /\ OnCellOf(segment_positions, player_pos)
    /\ next_state = "GameOver"

\* C3: once the state is GameOver it stays GameOver, and no step changes the
\* head position, the facing, the pending facing, the history, the Segments,
\* the Food or the queued events.
C3_GameOverIsTerminal ==
    [][state = "GameOver" =>
          /\ state' = "GameOver"
          /\ UNCHANGED <<player_pos, facing, next_movement, segment_positions,
                         segments, foods, eated_events>>]_vars

\* A frame in GameOver has been through its fixed runs and its input poll.
C3_Witness ==
    /\ state = "GameOver"
    /\ pc = "StateTransition"
    /\ fixed_runs = TickSteps

\* C4: next_movement is never the inverse of facing, and no step turns facing
\* into its own inverse.
C4_NoReversal ==
    /\ [](next_movement # inverse(facing))
    /\ [][facing' # inverse(facing)]_vars

\* An input poll has accepted a turn that the next tick will apply.
C4_Witness ==
    /\ state = "InGame"
    /\ pc = "StateTransition"
    /\ next_movement # facing

\* C5: a step that spawns a Food puts it on a cell of the board that is not the
\* head's cell and not a cell of segment_positions.
C5_FoodOnFreeCell ==
    [][Len(foods') > Len(foods) =>
          LET f == foods'[Len(foods')]
          IN  /\ f \in Cells
              /\ f # player_pos
              /\ ~OnCellOf(segment_positions, f)]_vars

\* A Food was consumed in this tick and its replacement has been spawned while
\* part of the history lies on the board.
C5_Witness ==
    /\ eated_events = 1
    /\ Len(foods) = 1
    /\ \E i \in 1 .. Len(segment_positions) : segment_positions[i] \in Cells

\* C6: there is never more than one Food; a Food is spawned only when there is
\* none, and a Food disappears only when the head is on its cell.
C6_AtMostOneFood ==
    /\ [](Len(foods) <= 1)
    /\ [][/\ Len(foods') > Len(foods) => Len(foods) = 0
          /\ Len(foods') < Len(foods) => OnCellOf(foods, player_pos)]_vars

\* The Food has been consumed and not replaced yet.
C6_Witness ==
    /\ pc = "spawn_food_if_needed"
    /\ Len(foods) = 0
    /\ eated_events = 1

\* C7: the head is always on a cell of the board.
C7_HeadOnBoard == player_pos \in Cells

\* C8: segment_positions never has more entries than the board has cells.
C8_LengthAtMostBoard == Len(segment_positions) <= BoardArea

\* C9: whenever no Food exists, some cell of the board is neither the head's
\* nor a history cell, so that get_valid_food_placement can return.
C9_FreeCellWhenNoFood ==
    Len(foods) = 0 => ValidFoodPlacements(player_pos, segment_positions) # {}

\* C10: the program is never inside a food placement that retries without
\* end: a full board leads to a terminal state instead.
C10_NoEndlessPlacement == pc # "get_valid_food_placement"

\* The displacement the data model gives each Direction: one cell along an
\* axis, Up towards larger y and Right towards larger x.
Unit(d) ==
    IF d = "Up" THEN <<0, 1>>
    ELSE IF d = "Down" THEN <<0, -1>>
    ELSE IF d = "Left" THEN <<-1, 0>>
    ELSE <<1, 0>>

Scaled(n, v) == <<n * v[1], n * v[2]>>

Plus(p, v) == <<p[1] + v[1], p[2] + v[2]>>

\* The history as it is after k ticks from the start, all facing d, with no
\* Food consumed: INITIAL_SEGMENTS - k parked entries, then the k cells the
\* head has left.
StraightHistory(d, k) ==
    [i \in 1 .. INITIAL_SEGMENTS |->
        IF i <= INITIAL_SEGMENTS - k THEN Parked
        ELSE Plus(first_pos, Scaled(i - (INITIAL_SEGMENTS - k) - 1, Unit(d)))]

\* C11: a tick sets facing to the next_movement held before it and moves the
\* head by exactly the unit vector of that facing, and no other step changes
\* facing or the head position; and whenever facing is d and the history is
\* that of k ticks in direction d from the start (k <= INITIAL_SEGMENTS, no
\* Food consumed), the head is at the starting cell + k * unit(d).
C11_HeadAdvancesByFacing ==
    /\ [][/\ Tick => /\ facing' = next_movement
                     /\ player_pos' = Plus(player_pos, Unit(next_movement))
          /\ ~Tick => UNCHANGED <<facing, player_pos>>]_vars
    /\ [](\A d \in Directions : \A k \in 1 .. INITIAL_SEGMENTS :
            (facing = d /\ segment_positions = StraightHistory(d, k)) =>
                player_pos = Plus(first_pos, Scaled(k, Unit(d))))

\* INITIAL_SEGMENTS ticks facing Right from the start have just been made.
C11_Witness ==
    /\ pc = "handle_food_eating_1" /\ finished
    /\ facing = "Right"
    /\ segment_positions = StraightHistory("Right", INITIAL_SEGMENTS)
    /\ player_pos = Plus(first_pos, <<INITIAL_SEGMENTS, 0>>)

\* The step of a frame in which Update polls the input.
InputPoll == pc = "RunFixedMainLoop" /\ pc' = "StateTransition"

\* C12: an input poll leaves facing, the head position, the history, the
\* Segments, the Food, the queued events, the state and the pending state
\* unchanged: it can change next_movement only.
C12_PollWritesPendingOnly ==
    [][InputPoll => UNCHANGED <<facing, player_pos, segment_positions, segments,
                                foods, eated_events, state, next_state>>]_vars

\* A poll has changed next_movement after the snake has started moving.
C12_Witness ==
    /\ state = "InGame"
    /\ pc = "StateTransition"
    /\ next_movement # facing
    /\ player_pos # first_pos

\* The run of FixedUpdate in which the Food was consumed has not been through
\* spawn_food_if_needed yet.
RespawnDue ==
    /\ finished
    /\ pc \in {"move_segments", "check_self_intersect", "handle_food_eating_2",
               "spawn_food_if_needed"}

\* C13: once the head has moved onto the Food's cell (a FoodEated event is
\* queued and the head is still on that cell), the Food is gone and, from the
\* end of that run's spawn_food_if_needed on, one Food exists, on another cell.
C13_FoodReplaced ==
    (eated_events > 0 /\ ~RespawnDue) =>
        /\ Len(foods) = 1
        /\ foods[1] # player_pos

Neg(v) == <<-v[1], -v[2]>>

\* C14: for every direction d the snake holds as facing or next_movement (all
\* four occur), inverse(inverse(d)) = d, inverse(d) # d, inverse pairs Up with
\* Down and Left with Right, and to_vec2(inverse(d)) = -to_vec2(d).
C14_InverseInvolution ==
    \A d \in {facing, next_movement} :
        /\ inverse(inverse(d)) = d
        /\ inverse(d) # d
        /\ (d \in {"Up", "Down"}) = (inverse(d) \in {"Up", "Down"})
        /\ (d \in {"Left", "Right"}) = (inverse(d) \in {"Left", "Right"})
        /\ to_vec2(inverse(d)) = Neg(to_vec2(d))

\* The snake faces Left and is about to turn: inverse has been applied to
\* directions of both axes.
C14_Witness ==
    /\ facing = "Left"
    /\ next_movement \in {"Up", "Down"}
    /\ inverse(facing) = "Right"
    /\ inverse(next_movement) \in {"Up", "Down"} \ {next_movement}

\* The check of a tick has just run.
JustChecked == pc = "handle_food_eating_2" /\ finished

\* C15: the collision check of a tick sets GameOver exactly when the head is
\* on a cell of the history as it is after that tick's push and pop.  A tick
\* without growth that moves the head into the cell of the oldest entry finds
\* that cell in neither the history nor, after move_segments, the Segments, so
\* it does not end the game.
C15_CheckIsPostMove ==
    /\ [](JustChecked =>
            ((next_state = "GameOver") = OnCellOf(segment_positions, player_pos)))
    /\ [][(Tick /\ eated_events = 0 /\ player_pos' = segment_positions[1])
            => ~OnCellOf(segment_positions', player_pos')]_vars
    /\ [][(pc = "move_segments" /\ finished /\ player_pos = segments[1]
           /\ segment_positions[1] # segments[1])
            => ~OnCellOf(segments', player_pos)]_vars

\* In a tick without growth the head has moved into the cell the tail has just
\* left: the first Segment still shows the old tail there, the history has
\* already dropped it.
C15_Witness ==
    /\ pc = "move_segments" /\ finished
    /\ player_pos = segments[1]
    /\ segments[1] # Parked
    /\ segment_positions[1] = segments[2]
    /\ ~OnCellOf(segment_positions, player_pos)

\* C16: GameOver becomes the pending state only in the collision check of a
\* tick, with the head on a cell of the history that is not the parked
\* position; the state changes only from InGame to a pending GameOver; and a
\* tick in which the head consumed the Food does not end the game.
C16_OnlySelfCollisionEnds ==
    /\ [][(next_state' = "GameOver" /\ next_state # "GameOver") =>
            /\ pc = "check_self_intersect" /\ finished
            /\ OnCellOf(segment_positions, player_pos)
            /\ player_pos # Parked]_vars
    /\ [][state' # state =>
            /\ state = "InGame" /\ state' = "GameOver"
            /\ next_state = "GameOver"]_vars
    /\ []((JustChecked /\ eated_events > 0) => next_state = "Unchanged")

\* The game has ended with the head on a history cell, after at least one Food
\* was consumed and with the head having been off the board or on it.
C16_Witness ==
    /\ state = "GameOver"
    /\ OnCellOf(segment_positions, player_pos)
    /\ player_pos # Parked
    /\ Len(segments) > INITIAL_SEGMENTS

\* Cells p and q are exactly one unit step apart.
OneStep(p, q) == \E d \in Directions : q = Plus(p, Unit(d))

\* The entries of the history that are cells the head has left.
RealEntries == {i \in DOMAIN segment_positions : segment_positions[i] # Parked}

\* INITIAL_SEGMENTS ticks have been made: every tick pushes one cell the head
\* has left, and such a cell is popped only when no parked entry is in front
\* of it, so the history holds fewer than INITIAL_SEGMENTS such cells exactly
\* during the first INITIAL_SEGMENTS - 1 ticks.
InitialTicksDone == Cardinality(RealEntries) >= INITIAL_SEGMENTS

\* The newest entry is one step from the head and the entries from index
\* `from` on are one step apart, each from the next.
Trails(from) ==
    /\ OneStep(segment_positions[Len(segment_positions)], player_pos)
    /\ \A i \in from .. Len(segment_positions) - 1 :
            OneStep(segment_positions[i], segment_positions[i + 1])

\* C17, as stated: once INITIAL_SEGMENTS ticks have been made, the newest
\* entry of the history is one unit step from the head and every two
\* consecutive entries are one unit step apart.
C17_ContiguousAfterInitialTicks == InitialTicksDone => Trails(1)

\* C17, amended: in every state the parked entries are the front of the
\* history, the entries behind them are one unit step apart, each from the
\* next, and the newest of them is one unit step from the head; so the whole
\* body trails contiguously as soon as no parked entry is left, which is after
\* INITIAL_SEGMENTS ticks plus one tick for every Food consumed before that.
\* A tick facing d that consumes no queued event, made after k - 1 such ticks
\* from the start, leaves the head at start + k * unit(d) and the history of k
\* ticks facing d (for k = INITIAL_SEGMENTS and d = Right: start,
\* start + (1,0), start + (2,0), start + (3,0)).
C17_ContiguousBehindParked ==
    /\ [](/\ \A i \in DOMAIN segment_positions : \A j \in DOMAIN segment_positions :
                (i < j /\ segment_positions[j] = Parked) => segment_positions[i] = Parked
          /\ RealEntries # {} =>
                Trails(Len(segment_positions) - Cardinality(RealEntries) + 1)
          /\ Cardinality(RealEntries) = Len(segment_positions) => Trails(1))
    /\ [][\A d \in Directions : \A k \in 1 .. INITIAL_SEGMENTS :
            (/\ Tick /\ eated_events = 0 /\ next_movement = d
             /\ segment_positions = StraightHistory(d, k - 1)
             /\ player_pos = Plus(first_pos, Scaled(k - 1, Unit(d))))
            => /\ segment_positions' = StraightHistory(d, k)
               /\ player_pos' = Plus(first_pos, Scaled(k, Unit(d)))]_vars

\* No parked entry is left and the snake has grown: the whole body trails the
\* head.
C17_Witness ==
    /\ Cardinality(RealEntries) = Len(segment_positions)
    /\ Len(segment_positions) > INITIAL_SEGMENTS
    /\ state = "InGame"
    /\ Trails(1)

\* ---------------------------------------------------------------------- C18
\* The place of a direction's key test in handle_inputs.
Rank(d) == CASE d = "Up" -> 1 [] d = "Left" -> 2 [] d = "Right" -> 3 [] d = "Down" -> 4

\* The pressed direction whose key test comes last.
Candidate(keys) == CHOOSE d \in keys : \A e \in keys : Rank(e) <= Rank(d)

\* The frame is about to poll the keys in InGame.
AboutToPoll == pc = "RunFixedMainLoop" /\ state = "InGame"

\* C18 as claimed: for every set of keys pressed in one poll, the inverse of
\* the current facing is never what the poll accepts and, pressed alone, leaves
\* the pending facing unchanged; and every pressed direction that is not the
\* inverse of the current facing is the pending facing after the poll unless
\* another pressed direction is.
C18_EveryValidKeyCounts ==
    AboutToPoll =>
        \A keys \in SUBSET Directions :
            LET r == Polled(facing, next_movement, keys)
            IN  /\ keys = {inverse(facing)} => r = next_movement
                /\ r # inverse(facing)
                /\ \A d \in keys :
                        d # inverse(facing) =>
                            \/ r = d
                            \/ \E e \in keys \ {d} : r = e

\* C18, amended: only the pressed direction whose key test comes last (Up,
\* Left, Right, Down in that order) is considered in a poll.  If it is the
\* inverse of the current facing the pending facing is unchanged, whatever
\* else was pressed; otherwise it becomes the pending facing; with no key
\* pressed the pending facing is unchanged.  This holds for every facing and
\* every set of keys, and every poll step is such a poll of some set of keys.
C18_LastKeyTestDecides ==
    /\ [](AboutToPoll =>
            \A keys \in SUBSET Directions :
                Polled(facing, next_movement, keys) =
                    IF keys = {} \/ Candidate(keys) = inverse(facing)
                    THEN next_movement
                    ELSE Candidate(keys))
    /\ [][(InputPoll /\ state = "InGame") =>
            \E keys \in SUBSET Directions :
                next_movement' =
                    IF keys = {} \/ Candidate(keys) = inverse(facing)
                    THEN next_movement
                    ELSE Candidate(keys)]_vars

\* A poll while facing Up has just accepted Left, and a poll of Down and Right
\* together would change nothing: Down is considered and refused, Right is
\* not considered.
C18_Witness ==
    /\ pc = "StateTransition" /\ state = "InGame"
    /\ facing = "Up" /\ next_movement = "Left"
    /\ Polled(facing, next_movement, {"Down", "Right"}) = "Left"
    /\ Polled(facing, next_movement, {"Down"}) = "Left"

\* ---------------------------------------------------------------------- C19
\* A Food is consumed in this step.
FoodConsumed == foods # <<>> /\ foods' = <<>>

\* C19: the game starts with INITIAL_SEGMENTS Segment entities, a history of
\* INITIAL_SEGMENTS entries and no queued FoodEated event; every step that
\* consumes a Food adds exactly one Segment entity and one queued event, and no
\* other step adds or removes a Segment entity; and in every reachable state
\* at most one FoodEated event is queued and the number of Segment entities
\* equals the length of segment_positions plus the queued events.  So both
\* counts are INITIAL_SEGMENTS plus the number of Foods consumed, and no Food
\* is counted twice.
C19_OneGrowthPerFood ==
    /\ Len(segments) = INITIAL_SEGMENTS
    /\ Len(segment_positions) = INITIAL_SEGMENTS
    /\ eated_events = 0
    /\ [](/\ eated_events \in {0, 1}
          /\ Len(segments) = Len(segment_positions) + eated_events)
    /\ [][/\ FoodConsumed =>
                /\ Len(segments') = Len(segments) + 1
                /\ eated_events' = eated_events + 1
                /\ Len(segment_positions') = Len(segment_positions)
          /\ ~FoodConsumed => Len(segments') = Len(segments)]_vars

\* The head is on the cell of the Food consumed in this fixed step, the second
\* handle_food_eating has run, and the Food was counted once.
C19_Witness ==
    /\ pc = "spawn_food_if_needed"
    /\ foods = <<>>
    /\ eated_events = 1
    /\ Len(segments) = INITIAL_SEGMENTS + 1
    /\ Len(segment_positions) = INITIAL_SEGMENTS

=============================================================================
